---- MODULE Spec2Model ----
(***************************************************************************)
(* Safeguard: the run of main() as a state machine.  Flag parsing and the  *)
(* interactive picker, the per-file fetch/fetch/diff loop, prompt          *)
(* composition and the single provider call.                               *)
(*                                                                         *)
(* Strings that the program builds are sequences of tokens (TLA+ strings): *)
(* concatenation is \o, the empty string is << >>.  Atomic strings (paths, *)
(* revisions, credentials, model names) are TLA+ strings, "" is empty.     *)
(***************************************************************************)
EXTENDS Integers, Sequences, FiniteSets, TLC

\* ------------------------------------------------------------------ bounds
\* number of files `git ls-files` can report to the picker, and longest
\* selection the picker is taken to
MaxFiles == 2
\* longest content / choice list a provider response carries
MaxEntries == 2

\* ------------------------------------------------------------- input sets
AllPaths == <<"a.go", "b.go", "c.go", "d.go">>
TrackedLists == {SubSeq(AllPaths, 1, n) : n \in 0..MaxFiles}
FileFlags == {"", "a.go"}
SourceFlags == {"", "main"}
TargetFlags == {"", "feat"}
ModelFlags == {"", "my-model"}
ProviderFlags == {"anthropic", "openai", "gemini"}
KeyFlags == {"", "flag-key"}
EnvValues == {"", "env-key"}
\* what `git show rev:path` can print
SourceContents == {"foo\n"}
TargetContents == {"foo\n", "bar\n"}
\* HTTP statuses the messages endpoint can answer with
Statuses == {199, 200, 299, 300, 500}
Texts == {"t1", "t2"}
EntryLists == UNION {[1..n -> Texts] : n \in 0..MaxEntries}
Prompts == {<<"p1">>, <<"p2">>}
\* what can be typed into the picker's filter input
FilterTerms == {"b"}
\* keys that reach the list: cursor moves, the filter key, a typed term,
\* backspace, a key that accepts the filter, escape
ListKeys == {"up", "down", "/", "backspace", "tab", "esc"} \cup FilterTerms

VARIABLES
    pc,            \* position of the run
    cfg,           \* Config
    m,             \* fileModel of the picker
    idx,           \* position of the range loop over cfg.FilePaths
    sourceContent, \* main's sourceContent
    targetContent, \* main's targetContent
    tempFiles,     \* scratch files that exist on disk
    diff,          \* text generateDiff returned
    diffErr,       \* whether generateDiff returned an error
    diffRun,       \* history: how the diff utility's run ended, << >> if not run
    allDiffs,      \* main's allDiffs
    allFilePaths,  \* main's allFilePaths
    prompt,        \* main's prompt
    resp,          \* last answer received from the provider
    analysis,      \* main's analysis
    err,           \* main's err after the provider switch
    out,           \* terminal messages printed
    exitCode,      \* process exit status, -1 while running
    ops,           \* history: external operations performed, in order
    results        \* history: outcome of each finished per-file stage

\* the per-file loop's variables
loopVars == <<idx, sourceContent, targetContent, tempFiles, diff, diffErr,
              diffRun, allDiffs, allFilePaths, results>>
\* the provider call's variables
callVars == <<prompt, resp, analysis, err>>
\* what the process leaves behind
termVars == <<out, exitCode>>

vars == <<pc, cfg, m, loopVars, callVars, termVars, ops>>

\* ----------------------------------------------------------------- values
NoErr == [kind |-> "nil", status |-> 0]
Failure(k) == [kind |-> k, status |-> 0]
NoResp == [kind |-> "none", status |-> 0, decodable |-> FALSE, entries |-> << >>]
NoModel == [items |-> << >>, index |-> 0, selectedFiles |-> << >>, quitting |-> FALSE,
            filterState |-> "unfiltered", filterValue |-> "", filtered |-> << >>]
Op(name, i) == [op |-> name, file |-> i]

\* ----------------------------------------------------------------- strings
RECURSIVE Join(_, _)
\* strings.Join over token strings
Join(elems, sep) ==
    IF Len(elems) = 0 THEN << >>
    ELSE IF Len(elems) = 1 THEN elems[1]
    ELSE elems[1] \o <<sep>> \o Join(Tail(elems), sep)

\* a list of atomic strings as a list of one-token strings
Atoms(list) == [i \in 1..Len(list) |-> <<list[i]>>]

Whitespace == {" ", "\n", "\t", "\n\n"}

RECURSIVE TrimLeft(_)
TrimLeft(s) ==
    IF Len(s) > 0 /\ Head(s) \in Whitespace THEN TrimLeft(Tail(s)) ELSE s

RECURSIVE TrimRight(_)
TrimRight(s) ==
    IF Len(s) > 0 /\ s[Len(s)] \in Whitespace
    THEN TrimRight(SubSeq(s, 1, Len(s) - 1)) ELSE s

\* strings.TrimSpace
TrimSpace(s) == TrimRight(TrimLeft(s))

\* ------------------------------------------------------------------- Init
Init ==
    /\ pc = "start"
    /\ cfg = [FilePaths |-> << >>, SourceBranch |-> "", TargetBranch |-> "",
              Model |-> "", Provider |-> "", APIKey |-> ""]
    /\ m = NoModel
    /\ idx = 0
    /\ sourceContent = ""
    /\ targetContent = ""
    /\ tempFiles = {}
    /\ diff = << >>
    /\ diffErr = FALSE
    /\ diffRun = << >>
    /\ allDiffs = << >>
    /\ allFilePaths = << >>
    /\ prompt = << >>
    /\ resp = NoResp
    /\ analysis = ""
    /\ err = NoErr
    /\ out = << >>
    /\ exitCode = -1
    /\ ops = << >>
    /\ results = << >>

\* os.Exit(code) after printing msg
Exit(code, msg) ==
    /\ pc' = "exited"
    /\ exitCode' = code
    /\ out' = Append(out, msg)

\* ------------------------------------------------------------- parseFlags
\* items launchFileSelector builds from the lines of `git ls-files`
NewItems(files) ==
    [i \in 1..Len(files) |-> [path |-> files[i], selected |-> FALSE]]

\* flag.Parse and the choice between --file and the picker
ParseFlags ==
    /\ pc = "start"
    /\ \E file \in FileFlags, source \in SourceFlags, target \in TargetFlags,
          model \in ModelFlags, provider \in ProviderFlags, key \in KeyFlags,
          interactive \in BOOLEAN :
        LET parsed == [FilePaths |-> << >>, SourceBranch |-> source,
                       TargetBranch |-> target, Model |-> model,
                       Provider |-> provider, APIKey |-> key]
        IN  IF interactive \/ file = ""
            THEN \/ \E files \in TrackedLists :
                       /\ cfg' = parsed
                       /\ m' = [NoModel EXCEPT !.items = NewItems(files)]
                       /\ pc' = "picker"
                       /\ UNCHANGED termVars
                 \/ \* listGitFiles failed
                    /\ cfg' = parsed
                    /\ m' = m
                    /\ Exit(1, "Error in interactive mode")
            ELSE /\ cfg' = [parsed EXCEPT !.FilePaths = <<file>>]
                 /\ m' = m
                 /\ pc' = "defaults"
                 /\ UNCHANGED termVars
    /\ UNCHANGED <<loopVars, callVars, ops>>

\* ------------------------------------------------------------- the picker
\* the multi-select fileModel, the one whose launchFileSelector returns the
\* []string that parseFlags stores in cfg.FilePaths
pickerRest == <<cfg, loopVars, callVars, ops>>

RECURSIVE RemoveFirst(_, _)
\* the selectedFiles loop that drops the first entry equal to path
RemoveFirst(files, path) ==
    IF Len(files) = 0 THEN << >>
    ELSE IF Head(files) = path THEN Tail(files)
    ELSE <<Head(files)>> \o RemoveFirst(Tail(files), path)

\* FilterValue() of an item matches the filter input
Matches(path, term) == term = "" \/ (term = "b" /\ path = "b.go")

\* the filter's result over the list's items
FilterItems(items, term) ==
    LET Hit(item) == Matches(item.path, term) IN SelectSeq(items, Hit)

\* list.Model.VisibleItems()
VisibleItems(model) ==
    IF model.filterState # "unfiltered" THEN model.filtered ELSE model.items

\* list.Model.SelectedItem() succeeded
HasSelectedItem == m.index < Len(VisibleItems(m))

\* list.Model.resetFiltering()
ResetFiltering(model) ==
    [model EXCEPT !.filterState = "unfiltered", !.filterValue = "",
                  !.filtered = << >>]

\* the cursor kept on the visible items, as list.Model does after a key
ClampCursor(model) ==
    LET last == Len(VisibleItems(model)) - 1
    IN  [model EXCEPT !.index = IF @ > last THEN (IF last > 0 THEN last ELSE 0) ELSE @]

\* list.Model.Update(msg) for a key: the filter input while filtering, the
\* cursor and the filter key while browsing
ListUpdate(model, key) ==
    IF model.filterState = "filtering"
    THEN IF key = "esc" THEN ResetFiltering(model)
         ELSE IF key \in {"tab", "up", "down"}
         THEN IF model.filterValue = "" \/ Len(model.items) = 0 THEN model
              ELSE IF Len(VisibleItems(model)) = 0 THEN ResetFiltering(model)
              ELSE [model EXCEPT !.filterState = "applied"]
         ELSE IF key \in FilterTerms /\ model.filterValue = ""
         THEN [model EXCEPT !.filterValue = key,
                            !.filtered = FilterItems(model.items, key)]
         ELSE IF key = "backspace" /\ model.filterValue # ""
         THEN [model EXCEPT !.filterValue = "",
                            !.filtered = FilterItems(model.items, "")]
         ELSE model
    ELSE ClampCursor(
         IF key = "esc" THEN ResetFiltering(model)
         ELSE IF key = "up" /\ model.index > 0
         THEN [model EXCEPT !.index = @ - 1]
         ELSE IF key = "down" /\ model.index + 1 < Len(VisibleItems(model))
         THEN [model EXCEPT !.index = @ + 1]
         ELSE IF key = "/"
         THEN [model EXCEPT !.filtered = IF model.filterValue = ""
                                         THEN model.items ELSE @,
                            !.index = 0,
                            !.filterState = "filtering"]
         ELSE model)

\* Update, case keys.quit
UpdateQuit ==
    /\ pc = "picker"
    /\ m' = [m EXCEPT !.quitting = TRUE]
    /\ pc' = "selectorReturn"
    /\ UNCHANGED <<termVars, pickerRest>>

\* Update, case keys.select_
UpdateSelect ==
    /\ pc = "picker"
    /\ pc' = "selectorReturn"
    /\ UNCHANGED <<m, termVars, pickerRest>>

\* list.Model.SetItems(items); Update drops the filter command it returns
SetItems(model, items) ==
    [model EXCEPT !.items = items,
                  !.filtered = IF model.filterState # "unfiltered" THEN << >> ELSE @]

\* Update, case " ": toggle the item under the cursor
UpdateToggle ==
    /\ pc = "picker"
    /\ HasSelectedItem
    \* bound: a selection of MaxFiles entries is not extended
    /\ VisibleItems(m)[m.index + 1].selected \/ Len(m.selectedFiles) < MaxFiles
    /\ LET i == VisibleItems(m)[m.index + 1]
           newItem == [path |-> i.path, selected |-> ~i.selected]
           files == IF newItem.selected
                    THEN Append(m.selectedFiles, i.path)
                    ELSE RemoveFirst(m.selectedFiles, i.path)
       IN  m' = SetItems([m EXCEPT !.selectedFiles = files],
                         [m.items EXCEPT ![m.index + 1] = newItem])
    /\ UNCHANGED <<pc, termVars, pickerRest>>

\* Update, default: the key goes to list.Model.Update
UpdateList ==
    /\ pc = "picker"
    /\ \E key \in ListKeys :
          /\ ListUpdate(m, key) # m
          /\ m' = ListUpdate(m, key)
    /\ UNCHANGED <<pc, termVars, pickerRest>>

\* p.Run() returned an error
ProgramError ==
    /\ pc = "picker"
    /\ Exit(1, "Error in interactive mode")
    /\ UNCHANGED <<m, pickerRest>>

\* launchFileSelector's result check and parseFlags' use of it
SelectorReturn ==
    /\ pc = "selectorReturn"
    /\ IF Len(m.selectedFiles) = 0
       THEN /\ Exit(1, "Error in interactive mode")
            /\ cfg' = cfg
       ELSE /\ cfg' = [cfg EXCEPT !.FilePaths = m.selectedFiles]
            /\ pc' = "defaults"
            /\ UNCHANGED termVars
    /\ m' = NoModel
    /\ UNCHANGED <<loopVars, callVars, ops>>

\* ----------------------------------------------- model and credential setup
DefaultModel(provider) ==
    IF provider = "anthropic" THEN "claude-3-5-sonnet-20240620" ELSE "gpt-4-turbo"

\* the provider has a named environment variable
HasEnvVar(provider) == provider \in {"anthropic", "openai"}

\* parseFlags after the file choice: default model, credential from the env
ResolveConfig ==
    /\ pc = "defaults"
    /\ LET model == IF cfg.Model = "" THEN DefaultModel(cfg.Provider) ELSE cfg.Model
       IN  IF cfg.APIKey = "" /\ HasEnvVar(cfg.Provider)
           THEN \E env \in EnvValues :
                    /\ cfg' = [cfg EXCEPT !.Model = model, !.APIKey = env]
                    /\ IF env = ""
                       THEN Exit(1, "Error: API key environment variable not set")
                       ELSE /\ pc' = "validate"
                            /\ UNCHANGED termVars
           ELSE /\ cfg' = [cfg EXCEPT !.Model = model]
                /\ pc' = "validate"
                /\ UNCHANGED termVars
    /\ UNCHANGED <<m, loopVars, callVars, ops>>

\* main's checks of the parsed configuration
Validate ==
    /\ pc = "validate"
    /\ IF cfg.SourceBranch = "" \/ cfg.TargetBranch = ""
       THEN /\ Exit(1, "Error: Source branch and target branch are required")
            /\ idx' = idx
       ELSE IF Len(cfg.FilePaths) = 0
       THEN /\ Exit(1, "Error: At least one file path is required")
            /\ idx' = idx
       ELSE /\ pc' = "loop"
            /\ idx' = 1
            /\ UNCHANGED termVars
    /\ UNCHANGED <<cfg, m, sourceContent, targetContent, tempFiles, diff, diffErr, diffRun,
                   allDiffs, allFilePaths, results, callVars, ops>>

\* ------------------------------------------------------ the per-file loop
\* (variant) the loop stops one entry early
LoopFinishedEarly(i, n) == i >= n

\* the range loop over cfg.FilePaths has no entry left
LoopFinished(i, n) == i > n

\* (variant) `break` in place of `continue`
Break(i, n) == n + 1

\* `continue`: the index the loop goes on with after file i of n
Continue(i, n) == i + 1

\* (variant) every diff that did not fail is collected
UsableAlways(d) == TRUE

\* the test that makes a diff a usable result
Usable(d) == TrimSpace(d) # << >>

\* (variant) the new entry is put in front
PrependTo(list, x) == <<x>> \o list

\* append(list, x)
AppendTo(list, x) == Append(list, x)

\* the entry of allDiffs for one file
FileSection(path, d) == <<"=== File: ", path, " ===\n">> \o d

\* what `diff -u --label .. --label ..` prints for two contents
UnifiedDiff(src, tgt, sourceBranch, targetBranch, path) ==
    IF src = tgt THEN << >>
    ELSE <<"--- ", sourceBranch, ":", path, "\n",
           "+++ ", targetBranch, ":", path, "\n",
           "@@ -1 +1 @@\n", "-", src, "+", tgt>>

\* the file the loop is at
filePath == cfg.FilePaths[idx]

\* the end of one iteration: record where the file failed ("none" when it did
\* not) and the diff text it produced, and go on with the next file
NextFile(failedAt, text) ==
    /\ results' = Append(results, [path |-> filePath, failed |-> failedAt,
                                   text |-> text])
    /\ idx' = Continue(idx, Len(cfg.FilePaths))
    /\ sourceContent' = ""
    /\ targetContent' = ""
    /\ diff' = << >>
    /\ diffErr' = FALSE
    /\ diffRun' = << >>
    /\ pc' = "loop"

\* for _, filePath := range cfg.FilePaths
LoopHead ==
    /\ pc = "loop"
    /\ pc' = IF LoopFinished(idx, Len(cfg.FilePaths)) THEN "gate" ELSE "fetchSource"
    /\ UNCHANGED <<cfg, m, loopVars, callVars, termVars, ops>>

\* getFileFromBranch(filePath, cfg.SourceBranch) and its error branch
FetchSource ==
    /\ pc = "fetchSource"
    /\ ops' = Append(ops, Op("fetchSource", idx))
    /\ \/ /\ NextFile("sourceFetch", << >>)
          /\ UNCHANGED <<tempFiles, allDiffs, allFilePaths>>
       \/ \E content \in SourceContents :
             /\ sourceContent' = content
             /\ pc' = "fetchTarget"
             /\ UNCHANGED <<idx, targetContent, tempFiles, diff, diffErr, diffRun,
                            allDiffs, allFilePaths, results>>
    /\ UNCHANGED <<cfg, m, callVars, termVars>>

\* getFileFromBranch(filePath, cfg.TargetBranch) and its error branch
FetchTarget ==
    /\ pc = "fetchTarget"
    /\ ops' = Append(ops, Op("fetchTarget", idx))
    /\ \/ /\ NextFile("targetFetch", << >>)
          /\ UNCHANGED <<tempFiles, allDiffs, allFilePaths>>
       \/ \E content \in TargetContents :
             /\ targetContent' = content
             /\ pc' = "createSource"
             /\ UNCHANGED <<idx, sourceContent, tempFiles, diff, diffErr, diffRun,
                            allDiffs, allFilePaths, results>>
    /\ UNCHANGED <<cfg, m, callVars, termVars>>

\* ------------------------------------------------------------ generateDiff
\* (variant) cleanup by hand, skipped by the early returns
DiffReturnNoCleanup(text, failed) ==
    /\ diff' = text
    /\ diffErr' = failed
    /\ tempFiles' = IF failed THEN tempFiles ELSE {}
    /\ pc' = "diffReturned"

\* generateDiff returns (text, failed); the deferred os.Remove calls have run
DiffReturn(text, failed) ==
    /\ diff' = text
    /\ diffErr' = failed
    /\ tempFiles' = {}
    /\ pc' = "diffReturned"

diffRest == <<cfg, m, idx, sourceContent, targetContent, allDiffs,
              allFilePaths, results, callVars, termVars>>

\* os.CreateTemp("", "source-*")
CreateSourceTemp ==
    /\ pc = "createSource"
    /\ ops' = Append(ops, Op("diff", idx))
    /\ \/ DiffReturn(<< >>, TRUE)
       \/ /\ tempFiles' = tempFiles \cup {"source"}
          /\ pc' = "createTarget"
          /\ UNCHANGED <<diff, diffErr>>
    /\ UNCHANGED <<diffRest, diffRun>>

\* os.CreateTemp("", "target-*")
CreateTargetTemp ==
    /\ pc = "createTarget"
    /\ \/ DiffReturn(<< >>, TRUE)
       \/ /\ tempFiles' = tempFiles \cup {"target"}
          /\ pc' = "writeSource"
          /\ UNCHANGED <<diff, diffErr>>
    /\ UNCHANGED <<diffRest, diffRun, ops>>

\* sourceFile.WriteString(sourceContent)
WriteSource ==
    /\ pc = "writeSource"
    /\ \/ DiffReturn(<< >>, TRUE)
       \/ /\ pc' = "writeTarget"
          /\ UNCHANGED <<tempFiles, diff, diffErr>>
    /\ UNCHANGED <<diffRest, diffRun, ops>>

\* targetFile.WriteString(targetContent)
WriteTarget ==
    /\ pc = "writeTarget"
    /\ \/ DiffReturn(<< >>, TRUE)
       \/ /\ pc' = "runDiff"
          /\ UNCHANGED <<tempFiles, diff, diffErr>>
    /\ UNCHANGED <<diffRest, diffRun, ops>>

\* the ways running the diff utility can end: not started, a normal exit with
\* status 0 or 1 decided by the contents, status 2 (trouble), or killed by a
\* signal (ExitCode() is -1) with whatever was printed until then
DiffRuns(printed) ==
    {[started |-> FALSE, code |-> 0, stdout |-> << >>],
     [started |-> TRUE, code |-> IF printed = << >> THEN 0 ELSE 1, stdout |-> printed],
     [started |-> TRUE, code |-> 2, stdout |-> << >>],
     [started |-> TRUE, code |-> -1, stdout |-> << >>],
     [started |-> TRUE, code |-> -1, stdout |-> printed]}

\* cmd.Run() returned an error that generateDiff reports
DiffToolFailed(run) == ~run.started \/ run.code > 1

\* cmd.Run() on the diff utility, and generateDiff's return
RunDiff ==
    /\ pc = "runDiff"
    /\ \E run \in DiffRuns(UnifiedDiff(sourceContent, targetContent,
                                      cfg.SourceBranch, cfg.TargetBranch, filePath)) :
          /\ diffRun' = <<run>>
          /\ IF DiffToolFailed(run)
             THEN DiffReturn(<< >>, TRUE)
             ELSE DiffReturn(run.stdout, FALSE)
    /\ UNCHANGED <<diffRest, ops>>

\* main's use of generateDiff's result
CollectDiff ==
    /\ pc = "diffReturned"
    /\ IF diffErr
       THEN /\ NextFile("diff", << >>)
            /\ UNCHANGED <<allDiffs, allFilePaths>>
       ELSE IF Usable(diff)
       THEN /\ allDiffs' = AppendTo(allDiffs, FileSection(filePath, diff))
            /\ allFilePaths' = AppendTo(allFilePaths, filePath)
            /\ NextFile("none", diff)
       ELSE /\ NextFile("none", diff)
            /\ UNCHANGED <<allDiffs, allFilePaths>>
    /\ UNCHANGED <<cfg, m, tempFiles, callVars, termVars, ops>>

\* ------------------------------------------------------------ buildPrompt
TemplateHead ==
    "You are an expert code reviewer specializing in finding bugs. Analyze the following changes in the file(s) "
TemplateTask ==
    " to identify potential bugs, logic errors, edge cases, and performance issues.\n\nDiff:\n[fence]\n"
TemplateFocus ==
    "\n[fence]\n\nFocus on:\n1. Logic errors\n2. Race conditions\n3. Memory leaks\n4. Security vulnerabilities\n5. API contract violations\n6. Edge cases\n7. Performance issues\n"
CrossFileFocus == "8. Cross-file dependencies and impacts"
TemplateClose ==
    "\n\nProvide a concise analysis listing only potential issues. If there are no issues, state that explicitly. "
CrossFileInstruction ==
    "When analyzing multiple files, consider how changes might affect interactions between files."

\* (variant) the cross-file focus and instruction only for several files
buildPromptPerCount(filePaths, d) ==
    <<TemplateHead>> \o filePaths \o <<TemplateTask>> \o d
        \o (IF Len(filePaths) > 1
            THEN <<TemplateFocus, CrossFileFocus, TemplateClose, CrossFileInstruction>>
            ELSE <<TemplateFocus, TemplateClose>>)

\* fmt.Sprintf(template, filePaths, diff); [fence] stands for the three backquotes
buildPrompt(filePaths, d) ==
    <<TemplateHead>> \o filePaths \o <<TemplateTask>> \o d
        \o <<TemplateFocus, CrossFileFocus, TemplateClose, CrossFileInstruction>>

\* (variant) the gate never closes
GateOpen(diffs) == FALSE

\* the aggregate gate's test
NothingUsable(diffs) == Len(diffs) = 0

\* the gate after the loop, then the composition of the one prompt
Gate ==
    /\ pc = "gate"
    /\ IF NothingUsable(allDiffs)
       THEN /\ Exit(0, "No changes detected in any of the selected files.")
            /\ UNCHANGED prompt
       ELSE /\ prompt' = buildPrompt(Join(Atoms(allFilePaths), ", "),
                                     Join(allDiffs, "\n\n"))
            /\ pc' = "dispatch"
            /\ UNCHANGED termVars
    /\ UNCHANGED <<cfg, m, loopVars, resp, analysis, err, ops>>

\* switch cfg.Provider
Dispatch ==
    /\ pc = "dispatch"
    /\ IF cfg.Provider = "anthropic"
       THEN /\ pc' = "anthropic"
            /\ ops' = Append(ops, Op("provider", 0))
            /\ UNCHANGED termVars
       ELSE IF cfg.Provider = "openai"
       THEN /\ pc' = "openai"
            /\ ops' = Append(ops, Op("provider", 0))
            /\ UNCHANGED termVars
       ELSE /\ Exit(1, "Error: Unknown provider. Use 'anthropic' or 'openai'")
            /\ UNCHANGED ops
    /\ UNCHANGED <<cfg, m, loopVars, callVars>>

\* ------------------------------------------------------------ the providers
\* (variant) the credential is not checked
KeyUnchecked(apiKey) == FALSE

\* apiKey == "" in getAnthropicAnalysis
AnthropicKeyMissing(apiKey) == apiKey = ""

\* apiKey == "" in getOpenAIAnalysis
OpenAIKeyMissing(apiKey) == apiKey = ""

\* (variant) only 4xx and 5xx are rejected
RejectedFrom400(status) == status >= 400

\* resp.StatusCode < 200 || resp.StatusCode >= 300
Rejected(status) == status < 200 \/ status >= 300

\* len(result.Content) == 0
NoContent(content) == Len(content) = 0

\* (variant) the last entry in place of the first
LastContentText(content) == content[Len(content)]

\* result.Content[0].Text
FirstContentText(content) == content[1]

\* len(resp.Choices) == 0
NoChoices(choices) == Len(choices) = 0

\* resp.Choices[0].Message.Content
FirstChoiceText(choices) == choices[1]

\* the function returns (text, e) to main
Return(text, e) ==
    /\ analysis' = text
    /\ err' = e
    /\ pc' = "returned"

\* bodies the messages endpoint can send: not JSON, or a content list
Responses ==
    {[kind |-> "http", status |-> st, decodable |-> FALSE, entries |-> << >>] :
        st \in Statuses}
    \cup {[kind |-> "http", status |-> st, decodable |-> TRUE, entries |-> es] :
        st \in Statuses, es \in EntryLists}

\* what CreateChatCompletion hands back when it returns no error
Completions ==
    {[kind |-> "completion", status |-> 200, decodable |-> TRUE, entries |-> es] :
        es \in EntryLists}

callRest == <<cfg, m, loopVars, prompt, termVars>>

\* getAnthropicAnalysis up to client.Do(req)
AnthropicRequest ==
    /\ pc = "anthropic"
    /\ IF AnthropicKeyMissing(cfg.APIKey)
       THEN /\ Return("", Failure("MissingCredential"))
            /\ UNCHANGED <<resp, ops>>
       ELSE /\ ops' = Append(ops, Op("net", 0))
            /\ \/ /\ Return("", Failure("Transport"))
                  /\ UNCHANGED resp
               \/ \E r \in Responses :
                     /\ resp' = r
                     /\ pc' = "anthropicResponse"
                     /\ UNCHANGED <<analysis, err>>
    /\ UNCHANGED callRest

\* getAnthropicAnalysis from the status check to its return
AnthropicResponse ==
    /\ pc = "anthropicResponse"
    /\ IF Rejected(resp.status)
       THEN Return("", [kind |-> "RemoteRejected", status |-> resp.status])
       ELSE IF ~resp.decodable
       THEN Return("", Failure("Decode"))
       ELSE IF NoContent(resp.entries)
       THEN Return("", Failure("EmptyResponse"))
       ELSE Return(FirstContentText(resp.entries), NoErr)
    /\ UNCHANGED <<callRest, resp, ops>>

\* getOpenAIAnalysis up to client.CreateChatCompletion
OpenAIRequest ==
    /\ pc = "openai"
    /\ IF OpenAIKeyMissing(cfg.APIKey)
       THEN /\ Return("", Failure("MissingCredential"))
            /\ UNCHANGED <<resp, ops>>
       ELSE /\ ops' = Append(ops, Op("net", 0))
            /\ \/ /\ Return("", Failure("Transport"))
                  /\ UNCHANGED resp
               \/ \E r \in Completions :
                     /\ resp' = r
                     /\ pc' = "openaiResponse"
                     /\ UNCHANGED <<analysis, err>>
    /\ UNCHANGED callRest

\* getOpenAIAnalysis after the call returned without error
OpenAIResponse ==
    /\ pc = "openaiResponse"
    /\ IF NoChoices(resp.entries)
       THEN Return("", Failure("EmptyResponse"))
       ELSE Return(FirstChoiceText(resp.entries), NoErr)
    /\ UNCHANGED <<callRest, resp, ops>>

\* (variant) only a transport failure counts as a failure
TransportFailed(e) == e.kind = "Transport"

\* err != nil
CallFailed(e) == e # NoErr

\* main after the switch: report the failure or print the analysis
Report ==
    /\ pc = "returned"
    /\ pc' = "exited"
    /\ IF CallFailed(err)
       THEN /\ out' = out \o <<"Error getting analysis: ", err.kind>>
            /\ exitCode' = 1
       ELSE /\ out' = out \o <<"--- Analysis of potential bugs ---", analysis>>
            /\ exitCode' = 0
    /\ UNCHANGED <<cfg, m, loopVars, callVars, ops>>

\* ----------------------------------------------------------- specifications
Next ==
    \/ ParseFlags
    \/ UpdateQuit
    \/ UpdateSelect
    \/ UpdateToggle
    \/ UpdateList
    \/ ProgramError
    \/ SelectorReturn
    \/ ResolveConfig
    \/ Validate
    \/ LoopHead
    \/ FetchSource
    \/ FetchTarget
    \/ CreateSourceTemp
    \/ CreateTargetTemp
    \/ WriteSource
    \/ WriteTarget
    \/ RunDiff
    \/ CollectDiff
    \/ Gate
    \/ Dispatch
    \/ AnthropicRequest
    \/ AnthropicResponse
    \/ OpenAIRequest
    \/ OpenAIResponse
    \/ Report

\* a run of main
Spec == Init /\ [][Next]_vars

\* a call of one provider function with arbitrary arguments
InitAnalyze ==
    /\ pc \in {"anthropic", "openai"}
    /\ \E key \in KeyFlags, model \in ModelFlags \ {""} :
          cfg = [FilePaths |-> << >>, SourceBranch |-> "", TargetBranch |-> "",
                 Model |-> model, Provider |-> pc, APIKey |-> key]
    /\ prompt \in Prompts
    /\ m = NoModel
    /\ idx = 0
    /\ sourceContent = ""
    /\ targetContent = ""
    /\ tempFiles = {}
    /\ diff = << >>
    /\ diffErr = FALSE
    /\ diffRun = << >>
    /\ allDiffs = << >>
    /\ allFilePaths = << >>
    /\ resp = NoResp
    /\ analysis = ""
    /\ err = NoErr
    /\ out = << >>
    /\ exitCode = -1
    /\ ops = << >>
    /\ results = << >>

NextAnalyze ==
    \/ AnthropicRequest
    \/ AnthropicResponse
    \/ OpenAIRequest
    \/ OpenAIResponse

SpecAnalyze == InitAnalyze /\ [][NextAnalyze]_vars

\* ------------------------------------------------------ reading the history
FileOps == {"fetchSource", "fetchTarget", "diff"}
OpsOf(name, f) == {i \in DOMAIN ops : ops[i] = Op(name, f)}
OpCount(name) == Cardinality({i \in DOMAIN ops : ops[i].op = name})
ProviderCalls == OpCount("provider")
NetCalls == OpCount("net")

Recognized == cfg.Provider \in {"anthropic", "openai"}
InProviderCall ==
    pc \in {"anthropic", "anthropicResponse", "openai", "openaiResponse", "returned"}
\* the per-file loop has been left
LoopOver ==
    \/ pc \in {"gate", "dispatch"}
    \/ InProviderCall
    \/ pc = "exited" /\ results # << >>

\* a file that was fetched at both revisions and whose diff is not empty
UsableResult(r) == r.failed = "none" /\ r.text # << >>
UsableResults == SelectSeq(results, UsableResult)
UsableCount == Len(UsableResults)
UsablePaths == LET usable == UsableResults IN [i \in DOMAIN usable |-> usable[i].path]

CountIn(seq, x) == Cardinality({i \in DOMAIN seq : seq[i] = x})

RECURSIVE SectionPaths(_)
\* the paths of the `=== File: <path> ===` markers of a prompt, in order
SectionPaths(p) ==
    IF Len(p) < 2 THEN << >>
    ELSE IF Head(p) = "=== File: " THEN <<p[2]>> \o SectionPaths(Tail(p))
    ELSE SectionPaths(Tail(p))

NotSeparator(t) == t # ", "
\* the paths the header of a prompt names, in order
HeaderPaths(p) ==
    LET k == CHOOSE i \in 1..Len(p) : p[i] = TemplateTask
    IN  SelectSeq(SubSeq(p, 2, k - 1), NotSeparator)

Tokens(p) == {p[i] : i \in DOMAIN p}
CrossFilePresent(p) == CrossFileFocus \in Tokens(p) /\ CrossFileInstruction \in Tokens(p)
CrossFileAbsent(p) == CrossFileFocus \notin Tokens(p) /\ CrossFileInstruction \notin Tokens(p)

\* --------------------------------------------------------------------- C1
\* C1: the provider is called at most once, never before every requested
\* file's stage (both fetches and the diff) has finished, and exactly once in
\* a run whose loop ended with a usable diff and a recognized provider.
C1_ProviderOnceAfterAllFiles ==
    /\ ProviderCalls <= 1
    /\ \A i \in DOMAIN ops : ops[i].op = "provider" =>
          /\ Len(results) = Len(cfg.FilePaths)
          /\ \A j \in DOMAIN ops : ops[j].op \in FileOps => j < i
    /\ InProviderCall => ProviderCalls = 1
    /\ (pc = "exited" /\ Len(results) = Len(cfg.FilePaths) /\ UsableCount >= 1
            /\ Recognized) => ProviderCalls = 1

C1_Witness ==
    /\ pc = "exited"
    /\ Len(cfg.FilePaths) = 2
    /\ Len(results) = 2
    /\ UsableCount >= 1
    /\ ProviderCalls = 1

\* --------------------------------------------------------------------- C2
\* C2: when all requested files are processed and none gave a usable result,
\* the run can only end with exit status 0 and the "no changes detected"
\* message, and no provider call and no network request is made.
C2_NoUsableEndsCleanly ==
    (Len(results) = Len(cfg.FilePaths) /\ Len(results) > 0 /\ UsableCount = 0) =>
        /\ pc \in {"loop", "gate", "exited"}
        /\ ProviderCalls = 0
        /\ NetCalls = 0
        /\ pc = "exited" =>
              /\ exitCode = 0
              /\ out = <<"No changes detected in any of the selected files.">>

C2_Witness ==
    /\ pc = "exited"
    /\ exitCode = 0
    /\ Len(results) = 2
    /\ \A f \in DOMAIN results : results[f].failed \in {"sourceFetch", "targetFetch"}
    /\ ProviderCalls = 0

\* --------------------------------------------------------------------- C3
\* C3: the one prompt has exactly K file sections and K header names, K the
\* number of files fetched at both revisions with a non-empty diff; each such
\* file has its section and its header name, no other file has one.
C3_PromptHasTheUsableFiles ==
    prompt # << >> =>
        LET sections == SectionPaths(prompt)
            header == HeaderPaths(prompt)
            usable == UsablePaths
        IN  /\ Len(usable) >= 1
            /\ Len(sections) = Len(usable)
            /\ Len(header) = Len(usable)
            /\ \A f \in DOMAIN cfg.FilePaths :
                  LET path == cfg.FilePaths[f]
                  IN  /\ CountIn(sections, path) = CountIn(usable, path)
                      /\ CountIn(header, path) = CountIn(usable, path)
            /\ ProviderCalls = 1 => Len(results) = Len(cfg.FilePaths)

C3_Witness ==
    /\ ProviderCalls = 1
    /\ Len(cfg.FilePaths) = 2
    /\ UsableCount = 1
    /\ results[1].failed = "none"
    /\ results[1].text = << >>
    /\ SectionPaths(prompt) = <<cfg.FilePaths[2]>>

\* --------------------------------------------------------------------- C4
\* C4: a file that failed at one step has no later step attempted, every file
\* of the list is still processed, and what is collected is exactly the usable
\* results of the files, each from its own outcome.
C4_FailureExcludesOnlyThatFile ==
    /\ \A f \in DOMAIN results :
          /\ results[f].path = cfg.FilePaths[f]
          /\ Cardinality(OpsOf("fetchSource", f)) = 1
          /\ Cardinality(OpsOf("fetchTarget", f)) =
                IF results[f].failed = "sourceFetch" THEN 0 ELSE 1
          /\ Cardinality(OpsOf("diff", f)) =
                IF results[f].failed \in {"sourceFetch", "targetFetch"} THEN 0 ELSE 1
    /\ LoopOver => Len(results) = Len(cfg.FilePaths)
    /\ LET usable == UsableResults
       IN  /\ allFilePaths = [i \in DOMAIN usable |-> usable[i].path]
           /\ allDiffs = [i \in DOMAIN usable |->
                             FileSection(usable[i].path, usable[i].text)]

C4_Witness ==
    /\ pc = "exited"
    /\ Len(results) = 2
    /\ results[1].failed = "sourceFetch"
    /\ UsableResult(results[2])
    /\ allFilePaths = <<cfg.FilePaths[2]>>

\* --------------------------------------------------------------------- C5
\* C5: the sections of the prompt and the names in its header are, in this
\* order, the usable files in the order of the requested file list.
C5_PromptKeepsInputOrder ==
    prompt # << >> =>
        LET usable == UsablePaths
        IN  /\ \A f \in DOMAIN results : results[f].path = cfg.FilePaths[f]
            /\ SectionPaths(prompt) = usable
            /\ HeaderPaths(prompt) = usable

C5_Witness ==
    /\ prompt # << >>
    /\ cfg.FilePaths = <<"b.go", "a.go">>
    /\ SectionPaths(prompt) = <<"b.go", "a.go">>
    /\ HeaderPaths(prompt) = <<"b.go", "a.go">>

\* --------------------------------------------------------------------- C6
ConfigError ==
    \/ cfg.SourceBranch = ""
    \/ cfg.TargetBranch = ""
    \/ Len(cfg.FilePaths) = 0
    \/ ~Recognized
    \/ cfg.APIKey = ""

\* C6: with a configuration error (an empty revision, an empty file list, an
\* unrecognized provider, a missing credential) no fetch, diff or network
\* operation is ever performed and the run ends with a non-zero exit status.
C6_ConfigErrorFatalBeforeWork ==
    ConfigError =>
        /\ ops = << >>
        /\ pc = "exited" => exitCode # 0

\* the configuration errors other than the provider name: these are fatal
\* before any work
C6_CheckedConfigErrorsFatal ==
    (\/ cfg.SourceBranch = ""
     \/ cfg.TargetBranch = ""
     \/ Len(cfg.FilePaths) = 0
     \/ Recognized /\ cfg.APIKey = "") =>
        /\ ops = << >>
        /\ pc = "exited" => exitCode # 0

C8_NonSuccessStatusRejected ==
    (/\ pc \in {"returned", "exited"}
     /\ resp.kind = "http"
     /\ (resp.status < 200 \/ resp.status > 299)) =>
        /\ err = [kind |-> "RemoteRejected", status |-> resp.status]
        /\ analysis = ""
        /\ pc = "exited" =>
              /\ exitCode # 0
              /\ out = <<"Error getting analysis: ", "RemoteRejected">>

C8_Witness ==
    /\ pc = "exited"
    /\ resp.kind = "http"
    /\ resp.status = 500
    /\ resp.decodable
    /\ resp.entries # << >>
    /\ UsableCount = 2
    /\ exitCode = 1
    /\ err.status = 500

\* --------------------------------------------------------------------- C9
\* C9: a provider function called with an empty credential makes no network
\* request at any point of the call and returns MissingCredential.
C9_EmptyCredentialNoNetwork ==
    cfg.APIKey = "" =>
        /\ NetCalls = 0
        /\ resp = NoResp
        /\ pc \in {"anthropic", "openai", "returned"}
        /\ pc = "returned" =>
              /\ err = Failure("MissingCredential")
              /\ analysis = ""

C9_Witness ==
    /\ pc = "returned"
    /\ cfg.Provider = "anthropic"
    /\ cfg.APIKey = ""
    /\ err = Failure("MissingCredential")
    /\ NetCalls = 0

\* -------------------------------------------------------------------- C10
\* a response was received and decoded: a 2xx JSON answer of the message API
\* or a completion of the chat API
ReceivedResult ==
    /\ pc \in {"returned", "exited"}
    /\ \/ resp.kind = "completion"
       \/ resp.kind = "http" /\ resp.status >= 200 /\ resp.status <= 299
            /\ resp.decodable

\* C10: a received response with an empty result list gives EmptyResponse,
\* one with entries gives the text of the first entry and no error.
C10_FirstEntryOrEmptyResponse ==
    ReceivedResult =>
        IF resp.entries = << >>
        THEN err = Failure("EmptyResponse") /\ analysis = ""
        ELSE err = NoErr /\ analysis = resp.entries[1]

C10_Witness ==
    /\ pc = "returned"
    /\ resp.kind = "http"
    /\ resp.entries = <<"t1", "t2">>
    /\ analysis = "t1"
    /\ err = NoErr

\* -------------------------------------------------------------------- C11
\* C11: a run that called the provider ends, when the call failed, with the
\* cause reported, a non-zero exit status and no analysis text printed, and,
\* when the call succeeded, with the returned text printed unchanged and
\* exit status 0.
C11_CallFailureFatalSuccessPrinted ==
    (pc = "exited" /\ ProviderCalls = 1) =>
        IF err # NoErr
        THEN /\ exitCode # 0
             /\ out = <<"Error getting analysis: ", err.kind>>
             /\ analysis = ""
             /\ \A t \in Texts : t \notin Tokens(out)
        ELSE /\ exitCode = 0
             /\ out = <<"--- Analysis of potential bugs ---", analysis>>
             /\ analysis = resp.entries[1]

C11_Witness ==
    /\ pc = "exited"
    /\ ProviderCalls = 1
    /\ err = Failure("EmptyResponse")
    /\ exitCode = 1
    /\ out = <<"Error getting analysis: ", "EmptyResponse">>

\* -------------------------------------------------------------------- C12
\* C12: after a run of the diff utility generateDiff returns the captured
\* output without error when the utility exited with status 0 or 1, and
\* returns a failure for every other outcome: another exit status, an end
\* without a normal exit status, or a utility that did not start.
C12_OnlyExitZeroOrOneSucceeds ==
    (pc = "diffReturned" /\ diffRun # << >>) =>
        LET run == diffRun[1]
        IN  IF run.started /\ run.code \in {0, 1}
            THEN ~diffErr /\ diff = run.stdout
            ELSE diffErr /\ diff = << >>

\* what generateDiff does: it fails when the utility did not start or exited
\* with a status above 1, and succeeds otherwise, a run ended by a signal
\* included
C12_FailureOnlyAboveOne ==
    (pc = "diffReturned" /\ diffRun # << >>) =>
        LET run == diffRun[1]
        IN  IF ~run.started \/ run.code >= 2
            THEN diffErr /\ diff = << >>
            ELSE ~diffErr /\ diff = run.stdout

\* -------------------------------------------------------------------- C13
InDiffStage == pc \in {"createTarget", "writeSource", "writeTarget", "runDiff"}

\* C13: scratch files exist only inside a call of generateDiff: whichever way
\* the call returned, none is left when it has returned, so none exists when
\* the next file's stage starts or when the provider is called.
C13_ScratchFilesGoneOnReturn ==
    /\ ~InDiffStage => tempFiles = {}
    /\ pc = "createTarget" => tempFiles = {"source"}
    /\ pc \in {"writeSource", "writeTarget", "runDiff"} =>
          tempFiles = {"source", "target"}

C13_Witness ==
    /\ pc = "diffReturned"
    /\ diffErr
    /\ diffRun # << >>
    /\ diffRun[1].started
    /\ diffRun[1].code = 2
    /\ tempFiles = {}

\* -------------------------------------------------------------------- C14
\* C14: the step that resolves the credential keeps a non-empty explicit value
\* as it is; without one it takes the non-empty value of the provider's
\* environment variable; and with neither it ends the run with a non-zero exit
\* status before any fetch or network operation, whatever the provider.
C14_CredentialPrecedence ==
    [][pc = "defaults" =>
          IF cfg.APIKey # ""
          THEN cfg'.APIKey = cfg.APIKey /\ pc' = "validate"
          ELSE \/ cfg'.APIKey \in EnvValues \ {""} /\ pc' = "validate"
               \/ /\ cfg'.APIKey = ""
                  /\ pc' = "exited"
                  /\ exitCode' # 0
                  /\ ops' = << >>]_vars

\* the same for the two providers that have an environment variable
C14_PrecedenceForRecognized ==
    [][(pc = "defaults" /\ Recognized) =>
          IF cfg.APIKey # ""
          THEN cfg'.APIKey = cfg.APIKey /\ pc' = "validate"
          ELSE \/ cfg'.APIKey \in EnvValues \ {""} /\ pc' = "validate"
               \/ /\ cfg'.APIKey = ""
                  /\ pc' = "exited"
                  /\ exitCode' # 0
                  /\ ops' = << >>]_vars

\* -------------------------------------------------------------------- C15
\* the paths of the list items shown as checked
CheckedPaths == {m.items[i].path : i \in {j \in DOMAIN m.items : m.items[j].selected}}

Range(s) == {s[i] : i \in DOMAIN s}

NoDuplicates(s) == \A i, j \in DOMAIN s : s[i] = s[j] => i = j

InPicker == pc \in {"picker", "selectorReturn"}

\* C15: in the picker, after any sequence of keys (toggles, cursor moves,
\* filtering), the selected paths hold no duplicate and are exactly the paths
\* of the items shown as checked.
C15_SelectionMatchesChecks ==
    InPicker =>
        /\ NoDuplicates(m.selectedFiles)
        /\ Range(m.selectedFiles) = CheckedPaths

\* the list's items are still the tracked files, each once
ItemsIntact == NoDuplicates([i \in DOMAIN m.items |-> m.items[i].path])

\* as long as no toggle under a filter has replaced another file's item, the
\* selection does match the checked items
C15_MatchesWhileItemsIntact ==
    (InPicker /\ ItemsIntact) =>
        /\ NoDuplicates(m.selectedFiles)
        /\ Range(m.selectedFiles) = CheckedPaths

\* -------------------------------------------------------------------- C16
\* C16: when the picker was left with the quit key, launchFileSelector reports
\* that nothing was selected: the run ends with a non-zero exit status, no file
\* path taken and nothing fetched, even with files toggled before.
C16_QuitSelectsNothing ==
    [][(pc = "selectorReturn" /\ m.quitting) =>
          /\ pc' = "exited"
          /\ exitCode' # 0
          /\ cfg'.FilePaths = << >>
          /\ ops' = << >>]_vars

\* quitting with nothing toggled does report the error
C16_QuitWithNothingToggled ==
    [][(pc = "selectorReturn" /\ m.quitting /\ m.selectedFiles = << >>) =>
          /\ pc' = "exited"
          /\ exitCode' # 0
          /\ cfg'.FilePaths = << >>
          /\ ops' = << >>]_vars

====
